---- MODULE Spec2Model ----
(***************************************************************************)
(* Retrieval layer of the Talosopolis AI backend (services/ai-backend):    *)
(* rag_service.py RAGService -- the chunker, the document store with its   *)
(* vector_store.json snapshot, and search_context.                         *)
(*                                                                         *)
(* Strings are sequences of characters.  In the store specification a      *)
(* character is a one-letter string; in the chunker specification the text *)
(* of length L is the string of the code points 1..L, so that every offset *)
(* of the text is recognisable in the chunks.                              *)
(***************************************************************************)
EXTENDS Integers, Sequences, FiniteSets, TLC

\* ------------------------------------------------------------------------
\* Bounds of the model
\* ------------------------------------------------------------------------
\* longest text given to _chunk_text with the default parameters
MaxTextLen == 2500
\* longest text given to _chunk_text with the small parameter pairs
MaxSmallLen == 12

\* ------------------------------------------------------------------------
\* Program constants
\* ------------------------------------------------------------------------
\* rag_service.py:73  chunk_size: int = 1000
DefaultChunkSize == 1000
\* rag_service.py:73  overlap: int = 200
DefaultOverlap == 200

Min(a, b) == IF a < b THEN a ELSE b
Max(a, b) == IF a > b THEN a ELSE b
\* ceil(a / b) for a >= 0, b > 0
Ceil(a, b) == (a + b - 1) \div b

\* ------------------------------------------------------------------------
\* Python string primitives
\* ------------------------------------------------------------------------
\* a slice bound as Python reads it on a string of length n: a negative
\* bound counts from the end, and every bound is clamped to 0..n
SliceBound(i, n) == IF i < 0 THEN Max(i + n, 0) ELSE Min(i, n)

\* text[start:end]
Slice(text, start, end) ==
    SubSeq(text, SliceBound(start, Len(text)) + 1, SliceBound(end, Len(text)))

\* ------------------------------------------------------------------------
\* RAGService._chunk_text (rag_service.py:73-85)
\* ------------------------------------------------------------------------
\* a stride that forgets the overlap
ChunkAdvance_NoOverlap(start, chunk_size, overlap) == start + chunk_size

\* line 84: start += (chunk_size - overlap)
ChunkAdvance(start, chunk_size, overlap) == start + (chunk_size - overlap)

\* lines 81-83: end = start + chunk_size; chunk = text[start:end]
ChunkAt(text, start, chunk_size) == Slice(text, start, start + chunk_size)

\* a loop that stops once the previous chunk has reached the end of the text
ChunkLoopCond_Covered(text, start) == start = 0 \/ start + 200 < Len(text)

\* line 80: while start < len(text)
ChunkLoopCond(text, start) == start < Len(text)

\* lines 80-84, the whole loop from a given start
RECURSIVE ChunkLoop(_, _, _, _, _)
ChunkLoop(text, start, chunks, chunk_size, overlap) ==
    IF ChunkLoopCond(text, start)
    THEN ChunkLoop(text, ChunkAdvance(start, chunk_size, overlap),
                   Append(chunks, ChunkAt(text, start, chunk_size)),
                   chunk_size, overlap)
    ELSE chunks

\* lines 73-85
_chunk_text(text, chunk_size, overlap) ==
    IF text = <<>> THEN <<>>
    ELSE ChunkLoop(text, 0, <<>>, chunk_size, overlap)


\* ------------------------------------------------------------------------
\* Python values used by the store and the retriever
\* ------------------------------------------------------------------------
\* the value None, distinct from every string
None == <<"None">>

\* truth value of an optional string: None and "" are falsy
Truthy(x) == x # None /\ x # <<>>

\* str.lower() on one character and on a string
LowerChar(c) == IF c = "A" THEN "a" ELSE IF c = "B" THEN "b" ELSE c
Lower(s) == [i \in 1..Len(s) |-> LowerChar(s[i])]

\* s.replace(ch, "")
Remove(s, ch) == SelectSeq(s, LAMBDA c : c # ch)

IsSpace(c) == c \in {" ", "\n", "\t"}

\* s.split(): maximal runs of non-whitespace characters, in order
RECURSIVE SplitFrom(_, _, _, _)
SplitFrom(s, i, cur, acc) ==
    IF i > Len(s)
    THEN (IF cur = <<>> THEN acc ELSE Append(acc, cur))
    ELSE IF IsSpace(s[i])
         THEN SplitFrom(s, i + 1, <<>>, IF cur = <<>> THEN acc ELSE Append(acc, cur))
         ELSE SplitFrom(s, i + 1, Append(cur, s[i]), acc)
Split(s) == SplitFrom(s, 1, <<>>, <<>>)

\* s.count(t): number of non-overlapping occurrences, scanning from the left:
\* the scan takes the first occurrence at or after i and goes on behind it
RECURSIVE CountFrom(_, _, _)
CountFrom(s, t, i) ==
    LET found == {j \in i..(Len(s) - Len(t) + 1) :
                     s[j] = t[1] /\ SubSeq(s, j, j + Len(t) - 1) = t}
    IN IF found = {} THEN 0
       ELSE LET first == CHOOSE j \in found : \A k \in found : j <= k
            IN 1 + CountFrom(s, t, first + Len(t))
Count(s, t) == IF t = <<>> THEN Len(s) + 1 ELSE CountFrom(s, t, 1)

\* sep.join(parts)
RECURSIVE Join(_, _)
Join(parts, sep) ==
    IF parts = <<>> THEN <<>>
    ELSE IF Len(parts) = 1 THEN parts[1]
    ELSE parts[1] \o sep \o Join(Tail(parts), sep)

\* a dict in insertion order: a sequence of <<key, value>> pairs, keys unique
DictKeys(d) == {d[i][1] : i \in 1..Len(d)}
DictHas(d, k) == k \in DictKeys(d)
DictIndex(d, k) == CHOOSE i \in 1..Len(d) : d[i][1] = k
DictGet(d, k) == d[DictIndex(d, k)][2]
\* d[k] = v: an existing key keeps its place, a new key goes last
DictSet(d, k, v) ==
    IF DictHas(d, k)
    THEN [d EXCEPT ![DictIndex(d, k)] = <<k, v>>]
    ELSE Append(d, <<k, v>>)
\* the dict as a mapping (dict equality ignores insertion order)
DictMap(d) == [k \in DictKeys(d) |-> DictGet(d, k)]

\* ------------------------------------------------------------------------
\* The durable snapshot vector_store.json
\* ------------------------------------------------------------------------
\* The file is a sequence of JSON tokens: the opening brace of the object,
\* one member per Document (its key and the member list of the nested
\* object), the closing brace.  A file whose write was cut is a proper
\* prefix of that sequence.
NoFile == [exists |-> FALSE, content |-> <<>>]

\* rag_service.py:51  "mock_embedding": [0.1, 0.2, 0.3], in tenths
MockEmbedding == <<1, 2, 3>>

\* json.dump of one Document: its members in the dict's order
JsonOfDoc(doc) ==
    << <<"filename", doc.filename>>,
       <<"course_id", doc.course_id>>,
       <<"status", doc.status>>,
       <<"mock_embedding", doc.mock_embedding>>,
       <<"text_content", doc.text_content>>,
       <<"chunks", doc.chunks>> >>

JsonMember(pairs, name) == pairs[CHOOSE i \in 1..Len(pairs) : pairs[i][1] = name][2]

\* json.load of one nested object
DocOfJson(pairs) ==
    [filename |-> JsonMember(pairs, "filename"),
     course_id |-> JsonMember(pairs, "course_id"),
     status |-> JsonMember(pairs, "status"),
     mock_embedding |-> JsonMember(pairs, "mock_embedding"),
     text_content |-> JsonMember(pairs, "text_content"),
     chunks |-> JsonMember(pairs, "chunks")]

\* a dump that leaves out the Documents that have no chunks
json_dump_SkipEmpty(store) ==
    LET kept == SelectSeq(store, LAMBDA e : e[2].chunks # <<>>) IN
    <<[t |-> "{"]>>
    \o [i \in 1..Len(kept) |->
          [t |-> "member", key |-> kept[i][1], value |-> JsonOfDoc(kept[i][2])]]
    \o <<[t |-> "}"]>>

\* json.dump(self.vector_store, f): the complete token sequence
json_dump(store) ==
    <<[t |-> "{"]>>
    \o [i \in 1..Len(store) |->
          [t |-> "member", key |-> store[i][1], value |-> JsonOfDoc(store[i][2])]]
    \o <<[t |-> "}"]>>

\* whether json.load accepts the content: one complete object
JsonValid(content) ==
    /\ Len(content) >= 2
    /\ content[1].t = "{"
    /\ content[Len(content)].t = "}"
    /\ \A i \in 2..(Len(content) - 1) : content[i].t = "member"

\* json.load(f) of a valid content: a later duplicate key replaces the value
RECURSIVE JsonMembers(_, _, _)
JsonMembers(content, i, acc) ==
    IF i >= Len(content) THEN acc
    ELSE JsonMembers(content, i + 1,
                     DictSet(acc, content[i].key, DocOfJson(content[i].value)))
json_load(content) == JsonMembers(content, 2, <<>>)

\* RAGService._load_store (rag_service.py:19-26)
_load_store(file) ==
    IF file.exists /\ JsonValid(file.content)
    THEN json_load(file.content)
    ELSE <<>>

\* What one run of _save_store (rag_service.py:28-33) can do to the file:
\*   ok          open("w") truncates, json.dump writes all, the file closes
\*   open_error  open raises: the file is untouched, the error is printed
\*   write_error the write raises after n tokens: the error is printed
\*   crash       the process dies after n tokens
SaveOutcomes(store) ==
    {[kind |-> "ok", n |-> Len(json_dump(store))],
     [kind |-> "open_error", n |-> 0]}
    \cup {[kind |-> k, n |-> n] :
            k \in {"write_error", "crash"}, n \in 0..(Len(json_dump(store)) - 1)}

\* the file after _save_store with the given outcome
_save_store(file, store, outcome) ==
    IF outcome.kind = "open_error" THEN file
    ELSE [exists |-> TRUE, content |-> SubSeq(json_dump(store), 1, outcome.n)]

\* ------------------------------------------------------------------------
\* RAGService.ingest_file / add_text_to_index (rag_service.py:35-71)
\* ------------------------------------------------------------------------
\* lines 46, 64: f"{course_id}_{filename}"
DocId(course_id, filename) == course_id \o <<"_">> \o filename

\* line 50: the status a Document is created with
NewStatus == "indexed"

\* a registration that stores the file name as the text, without chunks
NewDoc_Unchunked(course_id, filename) ==
    [filename |-> filename,
     course_id |-> course_id,
     status |-> NewStatus,
     mock_embedding |-> MockEmbedding,
     text_content |-> filename,
     chunks |-> <<>>]

\* lines 47-54: the Document ingest_file stores
NewDoc(course_id, filename) ==
    [filename |-> filename,
     course_id |-> course_id,
     status |-> NewStatus,
     mock_embedding |-> MockEmbedding,
     text_content |-> <<>>,
     chunks |-> <<>>]

\* a registration that keeps the chunks and text of an existing Document
IngestStore_KeepChunks(store, course_id, filename) ==
    LET doc_id == DocId(course_id, filename) IN
    IF DictHas(store, doc_id)
    THEN DictSet(store, doc_id,
                 [DictGet(store, doc_id) EXCEPT !.filename = filename,
                                                !.course_id = course_id,
                                                !.status = NewStatus])
    ELSE DictSet(store, doc_id, NewDoc(course_id, filename))

\* lines 46-54: the store after ingest_file's assignment
IngestStore(store, course_id, filename) ==
    DictSet(store, DocId(course_id, filename), NewDoc(course_id, filename))

\* an attach that appends the new chunks to the ones already there
AttachDoc_Append(doc, text) ==
    [doc EXCEPT !.chunks = doc.chunks \o _chunk_text(text, DefaultChunkSize, DefaultOverlap),
                !.text_content = text]

\* lines 67-69: the Document after add_text_to_index's two assignments
AttachDoc(doc, text) ==
    [doc EXCEPT !.chunks = _chunk_text(text, DefaultChunkSize, DefaultOverlap),
                !.text_content = text]

\* lines 64-69: the store after add_text_to_index (unchanged for an unknown key)
AttachStore(store, course_id, filename, text) ==
    LET doc_id == DocId(course_id, filename) IN
    IF DictHas(store, doc_id)
    THEN DictSet(store, doc_id, AttachDoc(DictGet(store, doc_id), text))
    ELSE store

\* ------------------------------------------------------------------------
\* RAGService.search_context (rag_service.py:87-133)
\* ------------------------------------------------------------------------
\* the tokens the safety gate currently considers valid
ValidTokens == {<<"SafetyToken:valid">>}

\* aergus.validate_token(token)
validate_token(token) == token \in ValidTokens

\* line 100
STOP_WORDS == {
    <<"w","h","a","t">>, <<"w","h","e","n">>, <<"w","h","e","r","e">>,
    <<"w","h","i","c","h">>, <<"w","h","o">>, <<"w","h","o","m">>,
    <<"t","h","i","s">>, <<"t","h","a","t">>, <<"t","h","e","s","e">>,
    <<"t","h","o","s","e">>, <<"a","m">>, <<"i","s">>, <<"a","r","e">>,
    <<"w","a","s">>, <<"w","e","r","e">>, <<"b","e">>, <<"b","e","e","n">>,
    <<"b","e","i","n","g">>, <<"h","a","v","e">>, <<"h","a","s">>,
    <<"h","a","d">>, <<"h","a","v","i","n","g">>, <<"d","o">>,
    <<"d","o","e","s">>, <<"d","i","d">>, <<"d","o","i","n","g">>, <<"a">>,
    <<"a","n">>, <<"t","h","e">>, <<"a","n","d">>, <<"b","u","t">>,
    <<"i","f">>, <<"o","r">>, <<"b","e","c","a","u","s","e">>, <<"a","s">>,
    <<"u","n","t","i","l">>, <<"w","h","i","l","e">>, <<"o","f">>,
    <<"a","t">>, <<"b","y">>, <<"f","o","r">>, <<"w","i","t","h">>,
    <<"a","b","o","u","t">>, <<"a","g","a","i","n","s","t">>,
    <<"b","e","t","w","e","e","n">>, <<"i","n","t","o">>,
    <<"t","h","r","o","u","g","h">>, <<"d","u","r","i","n","g">>,
    <<"b","e","f","o","r","e">>, <<"a","f","t","e","r">>,
    <<"a","b","o","v","e">>, <<"b","e","l","o","w">>, <<"t","o">>,
    <<"f","r","o","m">>, <<"u","p">>, <<"d","o","w","n">>, <<"i","n">>,
    <<"o","u","t">>, <<"o","n">>, <<"o","f","f">>, <<"o","v","e","r">>,
    <<"u","n","d","e","r">>, <<"a","g","a","i","n">>,
    <<"f","u","r","t","h","e","r">>, <<"t","h","e","n">>,
    <<"o","n","c","e">>, <<"h","e","r","e">>, <<"t","h","e","r","e">>,
    <<"a","l","l">>, <<"a","n","y">>, <<"b","o","t","h">>,
    <<"e","a","c","h">>, <<"f","e","w">>, <<"m","o","r","e">>,
    <<"m","o","s","t">>, <<"o","t","h","e","r">>, <<"s","o","m","e">>,
    <<"s","u","c","h">>, <<"n","o">>, <<"n","o","r">>, <<"n","o","t">>,
    <<"o","n","l","y">>, <<"o","w","n">>, <<"s","a","m","e">>, <<"s","o">>,
    <<"t","h","a","n">>, <<"t","o","o">>, <<"v","e","r","y">>, <<"s">>,
    <<"t">>, <<"c","a","n">>, <<"w","i","l","l">>, <<"j","u","s","t">>,
    <<"d","o","n">>, <<"s","h","o","u","l","d">>, <<"n","o","w">>}

\* a tokenizer that splits on single spaces: "".split(" ") is [""]
QueryTerms_SplitSpace(query) ==
    LET words == Split(Remove(Remove(query, "?"), "."))
    IN IF words = <<>> THEN << <<>> >>
       ELSE [i \in 1..Len(words) |-> Lower(words[i])]

\* line 103
QueryTerms(query) ==
    LET words == Split(Remove(Remove(query, "?"), "."))
    IN [i \in 1..Len(words) |-> Lower(words[i])]

\* line 104
FilterTerms(query_terms) ==
    SelectSeq(query_terms, LAMBDA t : t \notin STOP_WORDS /\ Len(t) >= 2)

\* a filter without the fallback to the unfiltered list
FilteredTerms_NoFallback(query) == FilterTerms(QueryTerms(query))

\* lines 104-108
FilteredTerms(query) ==
    LET query_terms == QueryTerms(query)
        filtered_terms == FilterTerms(query_terms)
    IN IF filtered_terms = <<>> THEN query_terms ELSE filtered_terms

\* lines 116-123: the score of one chunk
RECURSIVE ScoreFrom(_, _, _)
ScoreFrom(lower_chunk, terms, i) ==
    IF i > Len(terms) THEN 0
    ELSE LET count == Count(lower_chunk, terms[i])
         IN (IF count > 0 THEN count * 2 ELSE 0) + ScoreFrom(lower_chunk, terms, i + 1)
\* a score that counts in the chunk as written, not in its lower-case form
Score_CaseSensitive(chunk, terms) == ScoreFrom(chunk, terms, 1)

Score(chunk, terms) == ScoreFrom(Lower(chunk), terms, 1)

\* a scan that does not look at the course scope
SkipDoc_NoScope(doc, course_id) == FALSE

\* line 111: whether the scan skips the Document
SkipDoc(doc, course_id) == Truthy(course_id) /\ doc.course_id # course_id

\* line 126: f"From {doc['filename']}:\n{chunk}"
FormatEntry(filename, chunk) ==
    <<"F", "r", "o", "m", " ">> \o filename \o <<":", "\n">> \o chunk

\* lines 115-126: the result tuples one Document adds, from chunk j on.
\* A tuple is kept as its score and the place its text comes from: the
\* position of the Document in the store and the index of the chunk.
RECURSIVE ScanChunks(_, _, _, _)
ScanChunks(store, d, j, terms) ==
    LET doc == store[d][2] IN
    IF j > Len(doc.chunks) THEN <<>>
    ELSE LET score == Score(doc.chunks[j], terms)
             rest == ScanChunks(store, d, j + 1, terms)
         IN IF score > 0
            THEN <<[score |-> score, doc |-> d, chunk |-> j]>> \o rest
            ELSE rest

\* lines 110-126: the result list of the whole scan, from Document d on
RECURSIVE ScanDocs(_, _, _, _)
ScanDocs(store, d, terms, course_id) ==
    IF d > Len(store) THEN <<>>
    ELSE (IF SkipDoc(store[d][2], course_id) THEN <<>>
          ELSE ScanChunks(store, d, 1, terms))
         \o ScanDocs(store, d + 1, terms, course_id)

\* the chunks the scan scores: those of the Documents it does not skip
RECURSIVE ScoredCount(_, _, _)
ScoredCount(store, d, course_id) ==
    IF d > Len(store) THEN 0
    ELSE (IF SkipDoc(store[d][2], course_id) THEN 0 ELSE Len(store[d][2].chunks))
         + ScoredCount(store, d + 1, course_id)

\* line 126: the text of a result tuple
EntryText(store, r) ==
    FormatEntry(store[r.doc][2].filename, store[r.doc][2].chunks[r.chunk])

\* an insertion that puts a tuple before the tuples of equal score
InsertDesc_BeforeEqual(sorted, x) ==
    LET k == Cardinality({i \in 1..Len(sorted) : sorted[i].score > x.score})
    IN SubSeq(sorted, 1, k) \o <<x>> \o SubSeq(sorted, k + 1, Len(sorted))

\* line 129: results.sort(key=score, reverse=True), a stable sort
InsertDesc(sorted, x) ==
    LET k == Cardinality({i \in 1..Len(sorted) : sorted[i].score >= x.score})
    IN SubSeq(sorted, 1, k) \o <<x>> \o SubSeq(sorted, k + 1, Len(sorted))
RECURSIVE SortDescFrom(_, _, _)
SortDescFrom(results, i, acc) ==
    IF i > Len(results) THEN acc
    ELSE SortDescFrom(results, i + 1, InsertDesc(acc, results[i]))
SortDesc(results) == SortDescFrom(results, 1, <<>>)

\* line 132: results[:3]
TopK == 3
Top(results) == SubSeq(results, 1, Min(TopK, Len(results)))

\* line 133: "\n\n---\n\n"
Separator == <<"\n", "\n", "-", "-", "-", "\n", "\n">>

\* a search_context that scores without asking the gate
SearchOutcome_NoGate(store, query, token, course_id) ==
    LET terms == FilteredTerms(query)
        top == Top(SortDesc(ScanDocs(store, 1, terms, course_id)))
    IN [result |-> Join([i \in 1..Len(top) |-> EntryText(store, top[i])], Separator),
        hits |-> top,
        terms |-> terms,
        scored |-> ScoredCount(store, 1, course_id)]

\* lines 92-133: the outcome of search_context on a store: the returned
\* string, the tuples it is built from, the terms it scored with (none when
\* the gate denies), the chunks scored
SearchOutcome(store, query, token, course_id) ==
    IF ~validate_token(token)
    THEN [result |-> <<>>, hits |-> <<>>, terms |-> <<>>, scored |-> 0]
    ELSE LET terms == FilteredTerms(query)
             top == Top(SortDesc(ScanDocs(store, 1, terms, course_id)))
         IN [result |-> Join([i \in 1..Len(top) |-> EntryText(store, top[i])], Separator),
             hits |-> top,
             terms |-> terms,
             scored |-> ScoredCount(store, 1, course_id)]

\* ------------------------------------------------------------------------
\* economy.py: the ledger of user balances
\* ------------------------------------------------------------------------
\* economy.py:18
DAILY_CAP == 100
\* economy.py:54, the seconds that must have passed for a refill
DaySeconds == 86400

\* x in a Python list
SeqHas(s, x) == \E i \in 1..Len(s) : s[i] = x

\* lines 44-47: the entry of a user first seen at time t.  The code adds the
\* key completed_events with the first award that has an event_id and reads
\* it with the default []; an entry without the key is the entry with [].
NewUser(t) == [balance |-> DAILY_CAP, last_refill |-> t, completed_events |-> <<>>]

\* line 54
RefillDue(user_data, t) == t - user_data.last_refill > DaySeconds

\* EconomySystem.get_user_state (lines 41-61) at time t: the db it leaves;
\* the user_data it returns is the entry of user_id in that db
get_user_state(d, user_id, t) ==
    LET d1 == IF user_id \in DOMAIN d
              THEN d
              ELSE [u \in DOMAIN d \cup {user_id} |->
                      IF u = user_id THEN NewUser(t) ELSE d[u]]
        user_data == d1[user_id]
    IN IF RefillDue(user_data, t)
       THEN [d1 EXCEPT ![user_id] =
                [user_data EXCEPT !.balance = DAILY_CAP, !.last_refill = t]]
       ELSE d1

\* EconomySystem.spend (lines 66-76): the db it leaves and what it returns
SpendOutcome(d, user_id, amount, t) ==
    LET d1 == get_user_state(d, user_id, t) IN
    IF d1[user_id].balance >= amount
    THEN [db |-> [d1 EXCEPT ![user_id].balance = @ - amount], ret |-> TRUE]
    ELSE [db |-> d1, ret |-> FALSE]

\* lines 91-92: the list of completed events after an award for event_id
AwardEvents_Forget(completed_events, event_id) == completed_events
AwardEvents(completed_events, event_id) == Append(completed_events, event_id)

\* EconomySystem.award_reward (lines 78-97): the db it leaves and what it
\* returns
AwardOutcome(d, user_id, amount, event_id, t) ==
    LET d1 == get_user_state(d, user_id, t)
        user_data == d1[user_id]
    IN IF Truthy(event_id) /\ SeqHas(user_data.completed_events, event_id)
       THEN [db |-> d1, ret |-> FALSE]
       ELSE [db |-> [d1 EXCEPT ![user_id] =
                       [user_data EXCEPT
                          !.completed_events =
                             IF Truthy(event_id)
                             THEN AwardEvents(@, event_id) ELSE @,
                          !.balance = @ + amount]],
             ret |-> TRUE]

VARIABLES
    vector_store, \* per worker process: RAGService.vector_store, a dict in insertion order
    up,           \* per worker process: whether the process is running
    disk,         \* the file vector_store.json
    faults,       \* number of failed or interrupted snapshot writes so far
    last,         \* the last call made: its arguments and what it returned
    ctext,        \* _chunk_text: argument text
    csize,        \* _chunk_text: argument chunk_size
    coverlap,     \* _chunk_text: argument overlap
    cstart,       \* _chunk_text: local start
    cchunks,      \* _chunk_text: local chunks, then the returned list
    citer,        \* number of loop iterations executed in this call
    cpc,          \* position in _chunk_text: "idle", "call", "loop" or "done"
    db,           \* EconomySystem.db: user_id -> entry
    now,          \* the clock read by time.time(), in seconds
    economy_file, \* the file economy_db.json: the dict last written to it
    elast,        \* the last EconomySystem call: its arguments and result
    awarded       \* the (user_id, event_id) pairs award_reward was called with

svars == <<vector_store, up, disk, faults, last>>
cvars == <<ctext, csize, coverlap, cstart, cchunks, citer, cpc>>
evars == <<db, now, economy_file, elast, awarded>>
vars == <<vector_store, up, disk, faults, last,
          ctext, csize, coverlap, cstart, cchunks, citer, cpc,
          db, now, economy_file, elast, awarded>>

\* ------------------------------------------------------------------------
\* Inputs of the store specification
\* ------------------------------------------------------------------------
\* most snapshot writes that fail or are interrupted in one behaviour
MaxFaults == 1
\* length of the long text, just over one chunk stride: it gives two chunks
LongLen == 802

\* worker processes that can serve requests; main.py:22 creates one
\* RAGService per process
Workers == {1, 2}
\* the workers running in the single-process specification
MainWorkers == {1}

cA == <<"a">>
cAB == <<"a", "_", "b">>
cZ == <<"z">>
fC == <<"c">>
fBC == <<"b", "_", "c">>

\* (course_id, filename) pairs uploaded; the first two give the same doc_id
Keys == {<<cA, fBC>>, <<cAB, fC>>, <<cA, fC>>}

T1 == <<"A", "b", " ", "a">>
TLong == [i \in 1..LongLen |->
            IF i % 400 = 1 THEN "a" ELSE IF i % 400 = 2 THEN "b" ELSE " "]
Texts == {<<>>, T1, TLong}

Queries == {<<>>,
            <<"a", "b">>,
            <<"i", "s", " ", "A", "b", "?">>,
            <<"a">>,
            <<"?", ".">>,
            <<"b", " ", "a", "b">>}

Tokens == {<<"SafetyToken:valid">>, <<"SafetyToken:revoked">>, None}

Scopes == {None, cA, cAB, cZ}

\* the record of a call, before its fields are filled in.  Two fields are
\* carried from call to call: pending, the doc_ids the running process has
\* registered with ingest_file and not given a text since, and wiped, those
\* of them that held chunks when they were registered again.
NoCall ==
    [op |-> "none", w |-> 0, course_id |-> <<>>, filename |-> <<>>,
     text |-> <<>>, query |-> <<>>, token |-> None,
     outcome |-> "ok", raised |-> "", registered |-> FALSE, had_chunks |-> 0,
     document_id |-> <<>>, result |-> <<>>, hits |-> <<>>, scored |-> 0,
     terms |-> <<>>, pending |-> {}, wiped |-> {},
     request_course_id |-> None]

\* the record of an EconomySystem call, before its fields are filled in;
\* refilled tells whether get_user_state made the daily refill in the call
NoEconomyCall ==
    [op |-> "none", user_id |-> <<>>, amount |-> 0, event_id |-> None,
     ret |-> FALSE, refilled |-> FALSE]

\* economy = EconomySystem() (economy.py:107) with no economy_db.json
EconomyInit ==
    /\ db = <<>>
    /\ now = 0
    /\ economy_file = NoFile
    /\ elast = NoEconomyCall
    /\ awarded = {}

StoreInit ==
    /\ vector_store = [w \in Workers |-> <<>>]
    /\ up = [w \in Workers |-> w \in MainWorkers]
    /\ disk = NoFile
    /\ faults = 0
    /\ last = NoCall

ChunkIdle ==
    /\ ctext = <<>>
    /\ csize = DefaultChunkSize
    /\ coverlap = DefaultOverlap
    /\ cstart = 0
    /\ cchunks = <<>>
    /\ citer = 0
    /\ cpc = "idle"

Init == StoreInit /\ ChunkIdle /\ EconomyInit

\* the number of chunks the store holds under a doc_id (0 if it has none)
ChunksHeld(store, doc_id) ==
    IF DictHas(store, doc_id) THEN Len(DictGet(store, doc_id).chunks) ELSE 0

\* the outcome of a snapshot write that succeeds
SaveOk(store) == [kind |-> "ok", n |-> Len(json_dump(store))]

\* the outcomes a snapshot write may have in the current state
Outcomes(store) ==
    {o \in SaveOutcomes(store) : o.kind = "ok" \/ faults < MaxFaults}

\* the effect of a handler's _save_store call on the file, the fault count
\* and the process; a process that crashes stops, and vector_store then
\* holds the memory it had when it died, until __init__ replaces it
SaveStep(w, store, o) ==
    /\ disk' = _save_store(disk, store, o)
    /\ faults' = IF o.kind = "ok" THEN faults ELSE faults + 1
    /\ up' = [up EXCEPT ![w] = (o.kind # "crash")]
    /\ vector_store' = [vector_store EXCEPT ![w] = store]

\* RAGService.ingest_file (rag_service.py:35-61), its snapshot write
\* having outcome o
ingest_file(w, course_id, filename, o) ==
    /\ up[w]
    /\ LET store == IngestStore(vector_store[w], course_id, filename) IN
         /\ o \in SaveOutcomes(store)
         /\ SaveStep(w, store, o)
         /\ last' = [NoCall EXCEPT
                       !.op = "ingest_file", !.w = w,
                       !.course_id = course_id, !.filename = filename,
                       !.outcome = o.kind,
                       !.registered = TRUE,
                       !.had_chunks = ChunksHeld(vector_store[w], DocId(course_id, filename)),
                       !.document_id = DocId(course_id, filename),
                       !.pending = last.pending \cup {DocId(course_id, filename)},
                       !.wiped =
                          IF ChunksHeld(vector_store[w], DocId(course_id, filename)) > 0
                          THEN last.wiped \cup {DocId(course_id, filename)}
                          ELSE last.wiped \ {DocId(course_id, filename)}]
    /\ UNCHANGED <<cvars, evars>>

\* RAGService.add_text_to_index (rag_service.py:63-71), its snapshot write
\* (if it makes one) having outcome o
add_text_to_index(w, course_id, filename, text, o) ==
    /\ up[w]
    /\ LET store == AttachStore(vector_store[w], course_id, filename, text)
           registered == DictHas(vector_store[w], DocId(course_id, filename))
           call == [NoCall EXCEPT
                       !.op = "add_text_to_index", !.w = w,
                       !.course_id = course_id, !.filename = filename,
                       !.text = text,
                       !.registered = registered,
                       !.had_chunks = ChunksHeld(vector_store[w], DocId(course_id, filename)),
                       !.pending = last.pending \ {DocId(course_id, filename)},
                       !.wiped = last.wiped \ {DocId(course_id, filename)}]
       IN IF registered
          THEN /\ o \in SaveOutcomes(store)
               /\ SaveStep(w, store, o)
               /\ last' = [call EXCEPT !.outcome = o.kind]
          ELSE /\ o.kind = "ok"
               /\ last' = call
               /\ UNCHANGED <<vector_store, up, disk, faults>>
    /\ UNCHANGED <<cvars, evars>>

\* RAGService.search_context (rag_service.py:87-133)
search_context(w, query, token, course_id) ==
    /\ up[w]
    /\ LET out == SearchOutcome(vector_store[w], query, token, course_id) IN
       last' = [NoCall EXCEPT
                  !.op = "search_context", !.w = w,
                  !.query = query, !.token = token, !.course_id = course_id,
                  !.result = out.result, !.hits = out.hits,
                  !.scored = out.scored, !.terms = out.terms,
                  !.pending = last.pending, !.wiped = last.wiped]
    /\ UNCHANGED <<vector_store, up, disk, faults>>
    /\ UNCHANGED <<cvars, evars>>

\* the /chat handler (main.py:313-328) for a ChatRequest with the given
\* message and course_id: line 318 calls
\* rag_service.search_context(request.message, request.course_id), whose
\* second positional parameter is token; course_id keeps its default None.
\* The reply of the language model is not part of the state.
chat(w, message, course_id) ==
    /\ up[w]
    /\ LET out == SearchOutcome(vector_store[w], message, course_id, None) IN
       last' = [NoCall EXCEPT
                  !.op = "chat", !.w = w,
                  !.query = message, !.token = course_id, !.course_id = None,
                  !.request_course_id = course_id,
                  !.result = out.result, !.hits = out.hits,
                  !.scored = out.scored, !.terms = out.terms,
                  !.pending = last.pending, !.wiped = last.wiped]
    /\ UNCHANGED <<vector_store, up, disk, faults>>
    /\ UNCHANGED <<cvars, evars>>

\* RAGService.__init__ (rag_service.py:14-17) in a process that starts,
\* after a crash or after a stop between two requests
Restart(w) ==
    /\ vector_store' = [vector_store EXCEPT ![w] = _load_store(disk)]
    /\ up' = [up EXCEPT ![w] = TRUE]
    /\ last' = [NoCall EXCEPT
                  !.op = "restart", !.w = w,
                  !.outcome = IF up[w] THEN "ok" ELSE "crash"]
    /\ UNCHANGED <<disk, faults>>
    /\ UNCHANGED <<cvars, evars>>

\* One process serving ingestion requests; a snapshot write can fail or be
\* cut by a crash, at most MaxFaults times.
Next ==
    \E w \in MainWorkers :
       \/ \E k \in Keys :
            \E o \in Outcomes(IngestStore(vector_store[w], k[1], k[2])) :
               ingest_file(w, k[1], k[2], o)
       \/ \E k \in Keys, text \in Texts :
            \E o \in Outcomes(AttachStore(vector_store[w], k[1], k[2], text)) :
               add_text_to_index(w, k[1], k[2], text, o)
       \/ Restart(w)

Spec == Init /\ [][Next]_vars

\* One process serving ingestion and query requests, every snapshot write
\* succeeding.  search_context leaves everything but the call record as it
\* is, so a query after a query reaches no store that one query does not
\* reach; the state space keeps one query between two ingestion steps.
SearchNext ==
    \E w \in MainWorkers :
       \/ \E k \in Keys :
            ingest_file(w, k[1], k[2],
                        SaveOk(IngestStore(vector_store[w], k[1], k[2])))
       \/ \E k \in Keys, text \in Texts :
            add_text_to_index(w, k[1], k[2], text,
                        SaveOk(AttachStore(vector_store[w], k[1], k[2], text)))
       \/ /\ last.op # "search_context"
          /\ \E query \in Queries, token \in Tokens, course_id \in Scopes :
               search_context(w, query, token, course_id)

SpecSearch == Init /\ [][SearchNext]_vars

\* the course_id values of chat requests: absent, a course with Documents,
\* a course without, and -- the field being a free string of the client --
\* the text of a token the safety gate considers valid
ChatCourseIds == {None, cA, cZ} \cup ValidTokens

\* One process serving ingestion and chat requests, every snapshot write
\* succeeding; as in SearchNext, one chat between two ingestion steps.
ChatNext ==
    \E w \in MainWorkers :
       \/ \E k \in Keys :
            ingest_file(w, k[1], k[2],
                        SaveOk(IngestStore(vector_store[w], k[1], k[2])))
       \/ \E k \in Keys, text \in Texts :
            add_text_to_index(w, k[1], k[2], text,
                        SaveOk(AttachStore(vector_store[w], k[1], k[2], text)))
       \/ /\ last.op # "chat"
          /\ \E message \in Queries, course_id \in ChatCourseIds :
               chat(w, message, course_id)

SpecChat == Init /\ [][ChatNext]_vars

\* ------------------------------------------------------------------------
\* Two RAGService instances over the same vector_store.json
\* ------------------------------------------------------------------------
\* the (course_id, filename) pair each worker process ingests; the two
\* doc_ids differ
KeyOf(w) == IF w = 1 THEN <<cA, fC>> ELSE <<cAB, fC>>

\* Two worker processes, each with its own RAGService (main.py:22), serve
\* ingestion requests for different keys; every snapshot write succeeds.
\* A process loads vector_store.json when it starts (Restart), at any time.
MultiNext ==
    \E w \in Workers :
       \/ ingest_file(w, KeyOf(w)[1], KeyOf(w)[2],
                      SaveOk(IngestStore(vector_store[w], KeyOf(w)[1], KeyOf(w)[2])))
       \/ \E text \in Texts :
            add_text_to_index(w, KeyOf(w)[1], KeyOf(w)[2], text,
                      SaveOk(AttachStore(vector_store[w], KeyOf(w)[1], KeyOf(w)[2], text)))
       \/ Restart(w)

SpecMulti == Init /\ [][MultiNext]_vars

\* ------------------------------------------------------------------------
\* Specification of one call of _chunk_text, one step per loop iteration
\* ------------------------------------------------------------------------
\* the text of length L whose i-th character is the code point i
TextOfLen(L) == [i \in 1..L |-> i]

\* (chunk_size, overlap) pairs the chunker is called with; the first is the
\* pair of defaults, the only one the program itself uses
ChunkParams == {<<DefaultChunkSize, DefaultOverlap>>, <<5, 2>>, <<3, 0>>, <<4, 3>>}

IsDefault(p) == p = <<DefaultChunkSize, DefaultOverlap>>

ChunkInit ==
    /\ StoreInit
    /\ EconomyInit
    /\ \E p \in ChunkParams :
         /\ csize = p[1]
         /\ coverlap = p[2]
         /\ \E L \in 0..(IF IsDefault(p) THEN MaxTextLen ELSE MaxSmallLen) :
               ctext = TextOfLen(L)
    /\ cstart = 0
    /\ cchunks = <<>>
    /\ citer = 0
    /\ cpc = "call"

\* lines 75-79: if not text: return []; chunks = []; start = 0
ChunkEnter ==
    /\ cpc = "call"
    /\ cchunks' = <<>>
    /\ cstart' = 0
    /\ cpc' = IF ctext = <<>> THEN "done" ELSE "loop"
    /\ UNCHANGED <<ctext, csize, coverlap, citer>>
    /\ UNCHANGED <<svars, evars>>

\* an iteration that moves on without keeping its chunk
ChunkIter_NoAppend ==
    /\ cpc = "loop"
    /\ ChunkLoopCond(ctext, cstart)
    /\ cchunks' = cchunks
    /\ cstart' = ChunkAdvance(cstart, csize, coverlap)
    /\ citer' = citer + 1
    /\ UNCHANGED <<ctext, csize, coverlap, cpc>>
    /\ UNCHANGED <<svars, evars>>

\* lines 80-84: one iteration of the while loop
ChunkIter ==
    /\ cpc = "loop"
    /\ ChunkLoopCond(ctext, cstart)
    /\ cchunks' = Append(cchunks, ChunkAt(ctext, cstart, csize))
    /\ cstart' = ChunkAdvance(cstart, csize, coverlap)
    /\ citer' = citer + 1
    /\ UNCHANGED <<ctext, csize, coverlap, cpc>>
    /\ UNCHANGED <<svars, evars>>

\* lines 80, 85: the loop condition fails; return chunks
ChunkReturn ==
    /\ cpc = "loop"
    /\ ~ChunkLoopCond(ctext, cstart)
    /\ cpc' = "done"
    /\ UNCHANGED <<ctext, csize, coverlap, cstart, cchunks, citer>>
    /\ UNCHANGED <<svars, evars>>

ChunkNext == ChunkEnter \/ ChunkIter \/ ChunkReturn

SpecChunk == ChunkInit /\ [][ChunkNext]_vars

\* The call runs to its end: the interpreter executes the next statement of
\* _chunk_text as long as there is one.
SpecChunkLive == ChunkInit /\ [][ChunkNext]_vars /\ WF_vars(ChunkNext)

\* ------------------------------------------------------------------------
\* Specification of one call of _chunk_text with parameters outside
\* 0 <= overlap < chunk_size
\* ------------------------------------------------------------------------
\* most loop iterations followed in a call with such parameters
MaxIter == 8

\* whether the parameters satisfy 0 <= overlap < chunk_size
ValidParams(chunk_size, overlap) == 0 <= overlap /\ overlap < chunk_size

\* overlap equal to chunk_size, greater than chunk_size, and negative
BadChunkParams == {<<3, 3>>, <<3, 4>>, <<3, -1>>, <<DefaultChunkSize, DefaultChunkSize>>}

BadChunkInit ==
    /\ StoreInit
    /\ EconomyInit
    /\ \E p \in BadChunkParams :
         /\ csize = p[1]
         /\ coverlap = p[2]
         /\ \E L \in 0..MaxSmallLen : ctext = TextOfLen(L)
    /\ cstart = 0
    /\ cchunks = <<>>
    /\ citer = 0
    /\ cpc = "call"

\* ChunkIter, followed for at most MaxIter iterations
ChunkIterBounded == citer < MaxIter /\ ChunkIter

BadChunkNext == ChunkEnter \/ ChunkIterBounded \/ ChunkReturn

SpecChunkParams == BadChunkInit /\ [][BadChunkNext]_vars

\* ------------------------------------------------------------------------
\* Specification of the economy ledger
\* ------------------------------------------------------------------------
\* latest time of the clock, two seconds past one day
MaxTime == 86402
\* largest balance an award is followed to
MaxBalance == 200

Users == {<<"u1">>, <<"u2">>}
EventIds == {<<"e1">>, <<"e2">>, None}
AwardAmounts == {50}
SpendAmounts == {100}
\* the time between two calls: a day, or just over half a day
ClockSteps == {DaySeconds, DaySeconds \div 2 + 1}

\* the fields of the call record that every EconomySystem call fills in
EconomyCall(op, user_id) ==
    [NoEconomyCall EXCEPT
       !.op = op, !.user_id = user_id,
       !.refilled = user_id \in DOMAIN db /\ RefillDue(db[user_id], now)]

\* _save_db (lines 34-39), called when the db has changed: the file then
\* holds the dict
WriteDb(d) == IF d = db THEN economy_file ELSE [exists |-> TRUE, content |-> d]

\* EconomySystem.award_reward (lines 78-97)
award_reward(user_id, amount, event_id) ==
    LET out == AwardOutcome(db, user_id, amount, event_id, now) IN
    /\ out.db[user_id].balance <= MaxBalance
    /\ db' = out.db
    /\ economy_file' = IF out.ret THEN [exists |-> TRUE, content |-> out.db]
                       ELSE WriteDb(out.db)
    /\ elast' = [EconomyCall("award_reward", user_id) EXCEPT
                   !.amount = amount, !.event_id = event_id, !.ret = out.ret]
    /\ awarded' = IF Truthy(event_id)
                  THEN awarded \cup {<<user_id, event_id>>} ELSE awarded
    /\ UNCHANGED <<now, svars, cvars>>

\* EconomySystem.spend (lines 66-76)
spend(user_id, amount) ==
    LET out == SpendOutcome(db, user_id, amount, now) IN
    /\ db' = out.db
    /\ economy_file' = IF out.ret THEN [exists |-> TRUE, content |-> out.db]
                       ELSE WriteDb(out.db)
    /\ elast' = [EconomyCall("spend", user_id) EXCEPT
                   !.amount = amount, !.ret = out.ret]
    /\ UNCHANGED <<now, awarded, svars, cvars>>

\* EconomySystem.check_balance (lines 63-64)
check_balance(user_id) ==
    LET d == get_user_state(db, user_id, now) IN
    /\ db' = d
    /\ economy_file' = WriteDb(d)
    /\ elast' = EconomyCall("check_balance", user_id)
    /\ UNCHANGED <<now, awarded, svars, cvars>>

\* time passes between two calls
Tick(step) ==
    /\ now + step <= MaxTime
    /\ now' = now + step
    /\ elast' = [NoEconomyCall EXCEPT !.op = "tick"]
    /\ UNCHANGED <<db, economy_file, awarded, svars, cvars>>

EconomyNext ==
    \/ \E user_id \in Users, amount \in AwardAmounts, event_id \in EventIds :
         award_reward(user_id, amount, event_id)
    \/ \E user_id \in Users, amount \in SpendAmounts : spend(user_id, amount)
    \/ \E user_id \in Users : check_balance(user_id)
    \/ \E step \in ClockSteps : Tick(step)

SpecEconomy == Init /\ [][EconomyNext]_vars

\* ------------------------------------------------------------------------
\* Properties
\* ------------------------------------------------------------------------
IsMutator(op) == op \in {"ingest_file", "add_text_to_index"}

\* the store of the process that made the last call
LastStore == vector_store[last.w]

\* C1: search_context called with a token that validate_token rejects
\* returns the empty string, scores no chunk, and leaves the store and the
\* snapshot file as they were -- for every query, scope and store.
C1_DenialShortCircuits ==
    [][(last'.op = "search_context" /\ ~validate_token(last'.token))
         => /\ last'.result = <<>>
            /\ last'.scored = 0
            /\ last'.hits = <<>>
            /\ vector_store' = vector_store
            /\ disk' = disk]_vars

\* a denied query that the same store answers with a context for a valid token
C1_Witness ==
    /\ last.op = "search_context"
    /\ ~validate_token(last.token)
    /\ last.result = <<>>
    /\ \E token \in ValidTokens :
         SearchOutcome(LastStore, last.query, token, last.course_id).result # <<>>

\* the Documents of one course, in the store's order
CourseDocs(store, course_id) ==
    SelectSeq(store, LAMBDA e : e[2].course_id = course_id)

\* C2: with a valid token and course scope A, every entry of the result is
\* built from a chunk of a Document whose course_id is A, and the result is
\* the one the Documents of course A alone give, whatever the other
\* Documents score.
C2_ScopeIsolation ==
    (last.op = "search_context" /\ validate_token(last.token) /\ Truthy(last.course_id))
      => /\ \A i \in 1..Len(last.hits) :
               LastStore[last.hits[i].doc][2].course_id = last.course_id
         /\ last.result =
               SearchOutcome(CourseDocs(LastStore, last.course_id),
                             last.query, last.token, None).result

\* a scoped query answered from course A while a chunk of another course
\* scores higher than every chunk of course A
C2_Witness ==
    /\ last.op = "search_context"
    /\ validate_token(last.token)
    /\ last.course_id = cA
    /\ Len(last.hits) >= 1
    /\ \E d \in 1..Len(LastStore) :
         /\ LastStore[d][2].course_id # cA
         /\ \E j \in 1..Len(LastStore[d][2].chunks) :
              Score(LastStore[d][2].chunks[j], FilteredTerms(last.query))
                 > last.hits[1].score

\* the Document a single ingestion of the text gives: ingest_file, then
\* add_text_to_index, on an empty store
SingleIngestion(course_id, filename, text) ==
    AttachStore(IngestStore(<<>>, course_id, filename), course_id, filename, text)

\* the Document stored under the key of the last call is registered for
\* that (course_id, filename)
LastKeyRegistered ==
    /\ DictHas(LastStore, DocId(last.course_id, last.filename))
    /\ DictGet(LastStore, DocId(last.course_id, last.filename)).course_id = last.course_id
    /\ DictGet(LastStore, DocId(last.course_id, last.filename)).filename = last.filename

\* C3: when an ingestion of (course_id, filename) has completed -- the key
\* was registered by ingest_file and add_text_to_index has returned -- the
\* store holds exactly one Document for the key, equal in every field to the
\* Document of a single ingestion of the last text, and ingesting the same
\* text again leaves the store as it is.
C3_ReingestionIdempotent ==
    (last.op = "add_text_to_index" /\ last.outcome # "crash" /\ LastKeyRegistered)
      => LET doc_id == DocId(last.course_id, last.filename) IN
         /\ Cardinality({i \in 1..Len(LastStore) : LastStore[i][1] = doc_id}) = 1
         /\ Cardinality({i \in 1..Len(LastStore) :
                LastStore[i][2].course_id = last.course_id
                /\ LastStore[i][2].filename = last.filename}) = 1
         /\ DictGet(LastStore, doc_id)
               = SingleIngestion(last.course_id, last.filename, last.text)[1][2]
         /\ AttachStore(IngestStore(LastStore, last.course_id, last.filename),
                        last.course_id, last.filename, last.text) = LastStore

\* the short text attached to a Document that held the two chunks of the
\* long text
C3_Witness ==
    /\ last.op = "add_text_to_index"
    /\ last.outcome = "ok"
    /\ LastKeyRegistered
    /\ last.had_chunks = 2
    /\ last.text = T1
    /\ Len(LastStore) = 2

\* C4: when the process dies during _save_store, a later _load_store gives
\* the complete store as it was before the interrupted call or the complete
\* store after it.
C4_CrashKeepsSnapshot ==
    [][(IsMutator(last'.op) /\ last'.outcome = "crash")
         => \/ DictMap(_load_store(disk')) = DictMap(vector_store[last'.w])
            \/ DictMap(_load_store(disk')) = DictMap(vector_store'[last'.w])]_vars

\* C5: when a mutating call has returned, the snapshot file holds the
\* in-memory store: loading it gives exactly the current store.
C5_SnapshotIsCurrent ==
    (IsMutator(last.op) /\ last.registered /\ last.outcome # "crash")
      => /\ disk.exists
         /\ _load_store(disk) = LastStore

\* C6: a process that starts after a call has written the snapshot gets a
\* store equal to the one that was written, Document by Document and field
\* by field, Documents without chunks and text included.
C6_RoundTrip ==
    [][(IsMutator(last.op) /\ last.registered /\ last.outcome = "ok"
        /\ last'.op = "restart")
         => vector_store'[last'.w] = vector_store[last'.w]]_vars

\* a restarted process holding a Document without chunks and text and a
\* Document with two chunks
C6_Witness ==
    /\ last.op = "restart"
    /\ LastStore = _load_store(disk)
    /\ \E i \in 1..Len(LastStore) :
         LastStore[i][2].chunks = <<>> /\ LastStore[i][2].text_content = <<>>
    /\ \E i \in 1..Len(LastStore) : Len(LastStore[i][2].chunks) = 2

\* C7: add_text_to_index for a key that is not registered fails with a
\* NotFoundError.
C7_UnregisteredRaises ==
    (last.op = "add_text_to_index" /\ ~last.registered)
      => last.raised = "NotFoundError"

\* C8: every Document's status is registered or indexed, and after
\* ingest_file the Document of the key has status registered, no chunks and
\* empty text.
C8_RegisteredUntilAttached ==
    /\ \A w \in Workers : \A i \in 1..Len(vector_store[w]) :
          vector_store[w][i][2].status \in {"registered", "indexed"}
    /\ (last.op = "ingest_file")
         => LET doc == DictGet(LastStore, last.document_id) IN
            /\ doc.status = "registered"
            /\ doc.chunks = <<>>
            /\ doc.text_content = <<>>

\* the offsets of the chunks in the text (the i-th character of the text
\* is the code point i)
ChunkOffsets == [i \in 1..Len(cchunks) |-> cchunks[i][1] - 1]

ChunkDefaults == csize = DefaultChunkSize /\ coverlap = DefaultOverlap

\* C9 as stated: with chunk_size=1000 and overlap=200 a text of length L
\* gives ceil(max(0, L-200) / 800) chunks, and a text of 2500 characters the
\* chunks at offsets 0, 800 and 1600.
C9_CountAsStated ==
    (cpc = "done" /\ ChunkDefaults)
      => /\ Len(cchunks) = Ceil(Max(0, Len(ctext) - 200), 800)
         /\ Len(ctext) = 2500 => ChunkOffsets = <<0, 800, 1600>>

\* C9 amended: with chunk_size=1000 and overlap=200 a text of length L
\* gives ceil(L / 800) chunks, and a text of 2500 characters the chunks at
\* offsets 0, 800, 1600 and 2400.
C9_ChunkCount ==
    (cpc = "done" /\ ChunkDefaults)
      => /\ Len(cchunks) = Ceil(Len(ctext), 800)
         /\ Len(ctext) = 2500 => ChunkOffsets = <<0, 800, 1600, 2400>>

\* the 2500-character text chunked with the defaults
C9_Witness ==
    /\ cpc = "done"
    /\ ChunkDefaults
    /\ Len(ctext) = 2500
    /\ Len(cchunks) = 4

\* C10: chunk i (counted from 0) is the substring of the text that starts
\* at i * (chunk_size - overlap) and is chunk_size long, shorter only where
\* the text ends; of two consecutive full-length chunks the last overlap
\* characters of the first are the first overlap characters of the second.
C10_ChunkIsWindow ==
    (cpc = "done")
      => /\ \A i \in 1..Len(cchunks) :
              LET from == (i - 1) * (csize - coverlap) IN
              /\ cchunks[i] = SubSeq(ctext, from + 1, Min(from + csize, Len(ctext)))
              /\ Len(cchunks[i]) = Min(csize, Len(ctext) - from)
         /\ \A i \in 1..(Len(cchunks) - 1) :
              (Len(cchunks[i]) = csize /\ Len(cchunks[i + 1]) = csize)
                => SubSeq(cchunks[i], csize - coverlap + 1, csize)
                     = SubSeq(cchunks[i + 1], 1, coverlap)

\* a text chunked with the defaults into two full-length chunks and a rest
C10_Witness ==
    /\ cpc = "done"
    /\ ChunkDefaults
    /\ Len(cchunks) >= 3
    /\ Len(cchunks[1]) = csize
    /\ Len(cchunks[2]) = csize
    /\ Len(cchunks[3]) < csize

\* C11: a call of the chunker whose parameters violate
\* 0 <= overlap < chunk_size is rejected: it never enters the loop and never
\* returns chunks.
C11_BadParamsRejected ==
    ~ValidParams(csize, coverlap) => cpc \in {"call", "raised"}

\* a search_context call that passed the gate
ValidSearch == last.op = "search_context" /\ validate_token(last.token)

\* the query has no term: nothing is left of it but '?', '.' and whitespace
NoTermQuery(query) ==
    \A i \in 1..Len(query) : query[i] \in {"?", ".", " ", "\n", "\t"}

\* the course scope names a course none of the store's Documents belongs to
ScopeMatchesNothing(store, course_id) ==
    /\ Truthy(course_id)
    /\ \A d \in 1..Len(store) : store[d][2].course_id # course_id

\* C12: search_context returns the empty string, and raises nothing, when
\* the query is empty or has no term left after '?' and '.' are stripped,
\* when the course scope matches no Document, and when the token fails
\* validation -- whatever the store holds.
C12_EmptyOnEdgeCases ==
    (last.op = "search_context"
     /\ (\/ NoTermQuery(last.query)
         \/ ScopeMatchesNothing(LastStore, last.course_id)
         \/ ~validate_token(last.token)))
      => last.result = <<>> /\ last.hits = <<>> /\ last.raised = ""

\* a query of '?' and '.' only, with a valid token and no scope, on a store
\* that holds chunks
C12_Witness ==
    /\ ValidSearch
    /\ last.query = <<"?", ".">>
    /\ last.course_id = None
    /\ last.scored >= 2
    /\ last.result = <<>>

\* C13: when the snapshot write of a mutating call fails, the call ends
\* with an error for its caller.
C13_WriteFailureSurfaces ==
    (IsMutator(last.op) /\ last.outcome \in {"open_error", "write_error"})
      => last.raised # ""

\* C14: registering one (course_id, filename) pair leaves the Document of
\* every other pair in the store, as it was.
C14_KeysDoNotCollide ==
    [][(last'.op = "ingest_file")
         => \A i \in 1..Len(vector_store[last'.w]) :
               LET doc == vector_store[last'.w][i][2] IN
               (<<doc.course_id, doc.filename>> # <<last'.course_id, last'.filename>>)
                 => \E j \in 1..Len(vector_store'[last'.w]) :
                       vector_store'[last'.w][j][2] = doc]_vars

\* the positions at which a term occurs in a chunk, letter case ignored
Occurrences(chunk, term) ==
    {j \in 1..(Len(chunk) - Len(term) + 1) :
        \A k \in 1..Len(term) : LowerChar(chunk[j + k - 1]) = term[k]}

\* the sum over the terms of the number of occurrences in the chunk
RECURSIVE OccurrenceSum(_, _, _)
OccurrenceSum(chunk, terms, i) ==
    IF i > Len(terms) THEN 0
    ELSE Cardinality(Occurrences(chunk, terms[i])) + OccurrenceSum(chunk, terms, i + 1)

Eligible ==
    LET pairs == {<<d, j>> \in (1..Len(LastStore)) \X (1..2) :
                    /\ j <= Len(LastStore[d][2].chunks)
                    /\ ~SkipDoc(LastStore[d][2], last.course_id)
                    /\ OccurrenceSum(LastStore[d][2].chunks[j], last.terms, 1) > 0}
    IN pairs

\* <<d, j>> is met by the scan before <<e, k>>
ScanBefore(a, b) == a[1] < b[1] \/ (a[1] = b[1] /\ a[2] < b[2])

HitAt(i) == <<last.hits[i].doc, last.hits[i].chunk>>

C19_StopWordFallback ==
    ValidSearch
      => LET query_terms == QueryTerms(last.query)
             Dropped(t) == t \in STOP_WORDS \/ Len(t) < 2
         IN IF \A i \in 1..Len(query_terms) : Dropped(query_terms[i])
            THEN last.terms = query_terms
            ELSE /\ \A i \in 1..Len(last.terms) : ~Dropped(last.terms[i])
                 /\ last.terms = SelectSeq(query_terms, LAMBDA t : ~Dropped(t))

\* a query of one stop word that finds a chunk through the fallback
C19_WitnessFallback ==
    /\ ValidSearch
    /\ last.query = <<"a">>
    /\ last.terms = << <<"a">> >>
    /\ Len(last.hits) >= 1

\* C20: a Document that was registered and has had no text attached since
\* gives no entry to any result: the result is the one the store gives
\* without such Documents, also when the Document held chunks before it was
\* registered again.
C20_RegisteredGivesNothing ==
    (last.op = "search_context")
      => /\ \A i \in 1..Len(last.hits) : LastStore[last.hits[i].doc][1] \notin last.pending
         /\ last.result =
               SearchOutcome(SelectSeq(LastStore, LAMBDA e : e[1] \notin last.pending),
                             last.query, last.token, last.course_id).result

\* a query that gets an entry from one Document while another Document,
\* which held chunks, is registered again and waits for its text
C20_Witness ==
    /\ ValidSearch
    /\ last.wiped # {}
    /\ Len(last.hits) >= 1
    /\ last.query = <<"a", "b">>

\* C15: two ingestion requests on different keys, served by two RAGService
\* instances over the same vector_store.json: once a request has completed,
\* the snapshot holds the Document of each running writer's key, with the
\* chunks that writer gave it -- no snapshot write discards the other
\* writer's Document.
C15_WritersIndependent ==
    \A w \in Workers :
       LET doc_id == DocId(KeyOf(w)[1], KeyOf(w)[2]) IN
       (up[w] /\ DictHas(vector_store[w], doc_id))
          => /\ DictHas(_load_store(disk), doc_id)
             /\ DictGet(_load_store(disk), doc_id).chunks
                  = DictGet(vector_store[w], doc_id).chunks

\* the balance the ledger holds for the user; a user it has not seen holds
\* the DAILY_CAP that the first call gives
BalanceOf(d, user_id) ==
    IF user_id \in DOMAIN d THEN d[user_id].balance ELSE DAILY_CAP

\* the last call is an award_reward with an event_id
IsEventAward(call) == call.op = "award_reward" /\ Truthy(call.event_id)

\* C16 as stated: over any sequence of award_reward, spend, check_balance
\* and daily refills, the first award_reward call for a (user_id, event_id)
\* returns True and adds amount to the user's balance, and every later call
\* with the same user_id and event_id returns False and leaves the balance
\* unchanged.
C16_AsStated ==
    [][IsEventAward(elast')
         => LET before == BalanceOf(db, elast'.user_id)
                after == BalanceOf(db', elast'.user_id)
            IN IF <<elast'.user_id, elast'.event_id>> \notin awarded
               THEN elast'.ret /\ after = before + elast'.amount
               ELSE ~elast'.ret /\ after = before]_vars

\* C16 amended: the first award_reward call for a (user_id, event_id)
\* returns True and leaves the balance at amount above the balance that
\* get_user_state yields -- DAILY_CAP when the daily refill is made in the
\* call, the balance held before otherwise; every later call with the same
\* user_id and event_id returns False and adds nothing: it leaves the
\* balance that get_user_state yields.
C16_CreditedOnce ==
    [][IsEventAward(elast')
         => LET yielded == IF elast'.refilled THEN DAILY_CAP
                           ELSE BalanceOf(db, elast'.user_id)
                after == BalanceOf(db', elast'.user_id)
            IN IF <<elast'.user_id, elast'.event_id>> \notin awarded
               THEN elast'.ret /\ after = yielded + elast'.amount
               ELSE ~elast'.ret /\ after = yielded]_vars

\* a later call for an event already credited, made when the daily refill
\* is due: it returns False and the user holds DAILY_CAP
C16_Witness ==
    /\ IsEventAward(elast)
    /\ ~elast.ret
    /\ elast.refilled
    /\ <<elast.user_id, elast.event_id>> \in awarded
    /\ db[elast.user_id].balance = DAILY_CAP
    /\ SeqHas(db[elast.user_id].completed_events, elast.event_id)

\* C21: the /chat handler passes request.course_id to search_context as the
\* course scope and a token as the token, so the context used for a chat
\* request that names a course is built only from chunks of Documents of
\* that course.
C21_ChatScoped ==
    (last.op = "chat" /\ Truthy(last.request_course_id))
      => /\ last.course_id = last.request_course_id
         /\ last.token # last.request_course_id
         /\ \A i \in 1..Len(last.hits) :
               LastStore[last.hits[i].doc][2].course_id = last.request_course_id

\* C22: with 0 <= overlap < chunk_size a call of _chunk_text returns for
\* every text; the start offset strictly increases on every iteration of
\* its loop, and the loop has run exactly once per chunk held, hence once
\* per returned chunk.
C22_Terminates ==
    /\ (cpc = "call" /\ ValidParams(csize, coverlap)) ~> (cpc = "done")
    /\ [][ChunkIter => cstart' > cstart]_vars
    /\ [](ValidParams(csize, coverlap) => citer = Len(cchunks))

\* a call that returned after several iterations with the slowest advance,
\* one character per iteration
C22_Witness ==
    /\ cpc = "done"
    /\ ValidParams(csize, coverlap)
    /\ csize - coverlap = 1
    /\ citer = Len(ctext)
    /\ citer >= 3
    /\ Len(cchunks) = citer

\* the chunk list of every Document of the store is _chunk_text of its
\* text_content
ChunksFromText(store) ==
    \A d \in 1..Len(store) :
       store[d][2].chunks
          = _chunk_text(store[d][2].text_content, DefaultChunkSize, DefaultOverlap)

\* C23: in every state of the store reached by ingest_file and
\* add_text_to_index calls, in memory and as loaded from the snapshot, each
\* Document's chunks are _chunk_text of its text_content: both are empty
\* after a registration, and after an attach both come from the text of
\* that attach.
C23_ChunksMatchText ==
    /\ \A w \in Workers : ChunksFromText(vector_store[w])
    /\ ChunksFromText(_load_store(disk))
    /\ last.op = "ingest_file"
         => /\ DictGet(LastStore, last.document_id).text_content = <<>>
            /\ DictGet(LastStore, last.document_id).chunks = <<>>
    /\ (last.op = "add_text_to_index" /\ last.registered)
         => LET doc == DictGet(LastStore, DocId(last.course_id, last.filename)) IN
            /\ doc.text_content = last.text
            /\ doc.chunks = _chunk_text(last.text, DefaultChunkSize, DefaultOverlap)

\* the long text attached to a Document that held the one chunk of another
\* text: its two chunks replace that chunk
C23_Witness ==
    /\ last.op = "add_text_to_index"
    /\ last.registered
    /\ last.outcome = "ok"
    /\ last.had_chunks = 1
    /\ last.text = TLong
    /\ Len(DictGet(LastStore, DocId(last.course_id, last.filename)).chunks) = 2
    /\ _load_store(disk) = LastStore

====
